---- MODULE Spec2Model ----
(***************************************************************************)
(* Model of the header-augmenting proxy-wasm filter (src/src/lib.rs).      *)
(*                                                                         *)
(* RootHandler: on_configure, on_tick, on_http_call_response.              *)
(* HttpHandler: on_http_request_headers, parse_headers.                    *)
(*                                                                         *)
(* Byte payloads (configuration blob, upstream body, cache slot) are       *)
(* sequences of JSON lexemes [t, v]; serde_json is modelled by a           *)
(* recursive-descent parser over those lexemes.  Option<T> is a sequence   *)
(* of length 0 (None) or 1 (Some).  A panic (unwrap on None or Err) traps  *)
(* the module instance: no callback runs after it.  Durations are whole    *)
(* seconds; a timer period of 0 means the timer is not armed.              *)
(***************************************************************************)
EXTENDS Integers, Sequences, FiniteSets, TLC

\* ------------------------------------------------------------------ bounds
MaxInFlight == 2

\* ------------------------------------------------------- program constants
POWERED_BY == "header-augmenting-filter"
INITIALISATION_TICK == 3

None == <<>>
Some(x) == <<x>>
IsSome(o) == Len(o) = 1
Unwrap(o) == o[1]

Range(seq) == { seq[i] : i \in 1..Len(seq) }
RemoveAt(seq, i) == SubSeq(seq, 1, i - 1) \o SubSeq(seq, i + 1, Len(seq))

\* ---------------------------------------------------------------- lexemes
LB == [t |-> "{", v |-> ""]
RB == [t |-> "}", v |-> ""]
LS == [t |-> "[", v |-> ""]
RS == [t |-> "]", v |-> ""]
CO == [t |-> ":", v |-> ""]
CM == [t |-> ",", v |-> ""]
S(x) == [t |-> "str", v |-> x]
N(x) == [t |-> "num", v |-> x]
TT == [t |-> "true", v |-> "true"]
NL == [t |-> "null", v |-> "null"]
\* a byte sequence that is not valid UTF-8
BAD == [t |-> "bad", v |-> ""]

\* ------------------------------------------------------------- serde_json
\* serde_json::Value: [t, v] with t in str, num, bool, null, arr, obj.
\* An object keeps its members as a sequence of [k, val] in source order.
NullV == [t |-> "null", v |-> "null"]
PErr == [ok |-> FALSE, val |-> NullV, next |-> 0]
POk(val, next) == [ok |-> TRUE, val |-> val, next |-> next]

RECURSIVE ParseValue(_, _)
RECURSIVE ParseElements(_, _, _)
RECURSIVE ParseMembers(_, _, _)

ParseValue(toks, i) ==
    IF i > Len(toks) THEN PErr
    ELSE LET k == toks[i] IN
         CASE k.t = "str" -> POk([t |-> "str", v |-> k.v], i + 1)
           [] k.t = "num" -> POk([t |-> "num", v |-> k.v], i + 1)
           [] k.t \in {"true", "false"} -> POk([t |-> "bool", v |-> k.v], i + 1)
           [] k.t = "null" -> POk(NullV, i + 1)
           [] k.t = "[" ->
                IF i + 1 <= Len(toks) /\ toks[i + 1].t = "]"
                THEN POk([t |-> "arr", v |-> <<>>], i + 2)
                ELSE ParseElements(toks, i + 1, <<>>)
           [] k.t = "{" ->
                IF i + 1 <= Len(toks) /\ toks[i + 1].t = "}"
                THEN POk([t |-> "obj", v |-> <<>>], i + 2)
                ELSE ParseMembers(toks, i + 1, <<>>)
           [] OTHER -> PErr

ParseElements(toks, i, acc) ==
    LET r == ParseValue(toks, i) IN
    IF ~r.ok \/ r.next > Len(toks) THEN PErr
    ELSE LET acc2 == Append(acc, r.val) IN
         CASE toks[r.next].t = "," -> ParseElements(toks, r.next + 1, acc2)
           [] toks[r.next].t = "]" -> POk([t |-> "arr", v |-> acc2], r.next + 1)
           [] OTHER -> PErr

ParseMembers(toks, i, acc) ==
    IF i + 1 > Len(toks) \/ toks[i].t # "str" \/ toks[i + 1].t # ":" THEN PErr
    ELSE LET r == ParseValue(toks, i + 2) IN
         IF ~r.ok \/ r.next > Len(toks) THEN PErr
         ELSE LET acc2 == Append(acc, [k |-> toks[i].v, val |-> r.val]) IN
              CASE toks[r.next].t = "," -> ParseMembers(toks, r.next + 1, acc2)
                [] toks[r.next].t = "}" -> POk([t |-> "obj", v |-> acc2], r.next + 1)
                [] OTHER -> PErr

\* serde_json::from_slice: one value, then end of input.
from_slice(toks) ==
    LET r == ParseValue(toks, 1) IN
    IF r.ok /\ r.next = Len(toks) + 1 THEN POk(r.val, r.next) ELSE PErr

\* String::from_utf8(bytes).is_ok()
from_utf8_ok(toks) == \A i \in 1..Len(toks) : toks[i].t # "bad"

\* ----------------------------------------------------------- FilterConfig
\* The fields of FilterConfig, in declaration order.
FieldNames ==
    << "header_providing_service_cluster",
       "header_providing_service_path",
       "header_providing_service_authority",
       "header_cache_expiry" >>

StringFields ==
    { "header_providing_service_cluster",
      "header_providing_service_path",
      "header_providing_service_authority" }

\* Defaults with an hour of expiry.
DefaultFilterConfig_HourExpiry ==
    [ header_providing_service_cluster   |-> "sidecar",
      header_providing_service_path      |-> "/headers",
      header_providing_service_authority |-> "sidecar",
      header_cache_expiry                |-> 3600 ]

\* impl Default for FilterConfig; durations are whole seconds.
DefaultFilterConfig ==
    [ header_providing_service_cluster   |-> "sidecar",
      header_providing_service_path      |-> "/headers",
      header_providing_service_authority |-> "sidecar",
      header_cache_expiry                |-> 360 ]

\* The characters of the strings that occur as header_cache_expiry values.
Chars(s) ==
    CASE s = "10s"  -> << "1", "0", "s" >>
      [] s = "2m"   -> << "2", "m" >>
      [] s = "3s"   -> << "3", "s" >>
      [] s = "0s"   -> << "0", "s" >>
      [] s = "soon" -> << "s", "o", "o", "n" >>
      [] s = ""     -> << >>
      [] OTHER      -> << "?" >>

Digits == { "0", "1", "2", "3" }
DigitVal(c) == CASE c = "0" -> 0 [] c = "1" -> 1 [] c = "2" -> 2 [] c = "3" -> 3
UnitSecs(c) == CASE c = "s" -> 1 [] c = "m" -> 60 [] c = "h" -> 3600 [] OTHER -> 0

\* serde_humanize_rs on a Duration: one or more <digits><unit> groups, summed.
\* num = -1 when no number is pending.
RECURSIVE ParseDuration(_, _, _, _)
ParseDuration(cs, i, num, total) ==
    IF i > Len(cs)
    THEN [ok |-> (num = -1 /\ Len(cs) > 0), secs |-> total]
    ELSE CASE cs[i] \in Digits ->
                ParseDuration(cs, i + 1, (IF num = -1 THEN 0 ELSE num) * 10 + DigitVal(cs[i]), total)
           [] UnitSecs(cs[i]) > 0 /\ num # -1 ->
                ParseDuration(cs, i + 1, -1, total + num * UnitSecs(cs[i]))
           [] OTHER -> [ok |-> FALSE, secs |-> 0]

humanize_duration(s) == ParseDuration(Chars(s), 1, -1, 0)

CErr == [ok |-> FALSE, cfg |-> DefaultFilterConfig]

\* The derived Deserialize of FilterConfig under #[serde(default)], over the
\* members of a JSON object: known fields overlay the defaults, unknown
\* fields are ignored, a repeated or wrong-typed field is an error.
RECURSIVE VisitMap(_, _, _, _)
VisitMap(entries, i, cfg, seen) ==
    IF i > Len(entries) THEN [ok |-> TRUE, cfg |-> cfg]
    ELSE LET e == entries[i] IN
         IF e.k \in StringFields
         THEN IF e.k \in seen \/ e.val.t # "str" THEN CErr
              ELSE VisitMap(entries, i + 1, [cfg EXCEPT ![e.k] = e.val.v], seen \cup {e.k})
         ELSE IF e.k = "header_cache_expiry"
         THEN IF e.k \in seen \/ e.val.t # "str" THEN CErr
              ELSE LET d == humanize_duration(e.val.v) IN
                   IF ~d.ok THEN CErr
                   ELSE VisitMap(entries, i + 1,
                                 [cfg EXCEPT !.header_cache_expiry = d.secs],
                                 seen \cup {e.k})
         ELSE VisitMap(entries, i + 1, cfg, seen)

\* serde_json::from_slice::<FilterConfig>
from_slice_FilterConfig(toks) ==
    LET r == from_slice(toks) IN
    IF ~r.ok THEN CErr
    ELSE IF r.val.t = "obj" THEN VisitMap(r.val.v, 1, DefaultFilterConfig, {})
    ELSE IF r.val.t = "arr" /\ Len(r.val.v) = Len(FieldNames)
         THEN VisitMap([j \in 1..Len(FieldNames) |-> [k |-> FieldNames[j], val |-> r.val.v[j]]],
                       1, DefaultFilterConfig, {})
    ELSE CErr

\* --------------------------------------------------------- request headers
\* A header map is a function from the names present to their values.
\* set_http_request_header that leaves a header already on the request alone.
set_http_request_header_KeepExisting(h, name, value) ==
    IF name \in DOMAIN h \/ ~IsSome(value) THEN h
    ELSE [n \in DOMAIN h \cup {name} |-> IF n = name THEN Unwrap(value) ELSE h[n]]

\* set_http_request_header(name, Some(v)) replaces the header,
\* set_http_request_header(name, None) removes it.
set_http_request_header(h, name, value) ==
    IF IsSome(value)
    THEN [n \in DOMAIN h \cup {name} |-> IF n = name THEN Unwrap(value) ELSE h[n]]
    ELSE [n \in DOMAIN h \ {name} |-> h[n]]

\* Value::as_str: Some for a JSON string, None for every other value.
as_str(val) == IF val.t = "str" THEN Some(val.v) ELSE None

\* serde_json::Map built from an object's members: one entry per key, a
\* repeated key keeps its last value.
RECURSIVE MapInsert(_, _, _)
MapInsert(m, e, i) ==
    IF i > Len(m) THEN Append(m, e)
    ELSE IF m[i].k = e.k THEN [m EXCEPT ![i] = e]
    ELSE MapInsert(m, e, i + 1)

RECURSIVE MapOf(_, _, _)
MapOf(entries, i, m) ==
    IF i > Len(entries) THEN m
    ELSE MapOf(entries, i + 1, MapInsert(m, entries[i], 1))

\* HttpHandler::parse_headers: "err" when the bytes are not JSON, a panic
\* when the JSON value is not an object (unwrap of as_object), else the map.
parse_headers(res) ==
    LET r == from_slice(res) IN
    IF ~r.ok THEN [kind |-> "err", map |-> <<>>]
    ELSE IF r.val.t # "obj" THEN [kind |-> "panic", map |-> <<>>]
    ELSE [kind |-> "ok", map |-> MapOf(r.val.v, 1, <<>>)]

\* The loop of on_http_request_headers over the parsed map.
RECURSIVE SetHeaders(_, _, _)
SetHeaders(h, m, i) ==
    IF i > Len(m) THEN h
    ELSE SetHeaders(set_http_request_header(h, m[i].k, as_str(m[i].val)), m, i + 1)

\* The local response of the empty-cache branch.
NotInitialisedResponse ==
    [ status  |-> 500,
      headers |-> [n \in {"Powered-By"} |-> POWERED_BY],
      body    |-> "Filter not initialised" ]

\* ------------------------------------------------------------------ inputs
\* A configuration blob written from an assignment of fields (a function
\* from the field names it sets to their string values), in field order.
RECURSIVE WriteMembers(_, _, _)
WriteMembers(a, j, acc) ==
    IF j > Len(FieldNames) THEN acc
    ELSE IF FieldNames[j] \in DOMAIN a
         THEN WriteMembers(a, j + 1,
                (IF acc = << >> THEN acc ELSE Append(acc, CM))
                    \o << S(FieldNames[j]), CO, S(a[FieldNames[j]]) >>)
         ELSE WriteMembers(a, j + 1, acc)

WriteConfig(a) == << LB >> \o WriteMembers(a, 1, << >>) \o << RB >>

\* The values the well-formed blobs give the fields they set.
SuppliedValue(f) ==
    CASE f = "header_providing_service_cluster"   -> "c1"
      [] f = "header_providing_service_path"      -> "/h"
      [] f = "header_providing_service_authority" -> "a1"
      [] f = "header_cache_expiry"                -> "10s"

Assignment(fs) == [f \in fs |-> SuppliedValue(f)]

\* Configuration blobs the host may hand to on_configure.
ConfEmptyObject == WriteConfig(Assignment({}))
ConfExpiry10s   == WriteConfig(Assignment({"header_cache_expiry"}))
ConfAllSet      == WriteConfig(Assignment(Range(FieldNames)))
ConfExpiryZero  == << LB, S("header_cache_expiry"), CO, S("0s"), RB >>
ConfWrongType   == << LB, S("header_providing_service_path"), CO, S("/h"), CM,
                          S("header_providing_service_cluster"), CO, N("5"), RB >>
ConfBadDuration == << LB, S("header_providing_service_path"), CO, S("/h"), CM,
                          S("header_cache_expiry"), CO, S("soon"), RB >>
ConfTruncated   == << LB, S("header_providing_service_path"), CO, S("/h") >>

MalformedBlobs == { ConfWrongType, ConfBadDuration, ConfTruncated }

ConfigBlobs ==
    { ConfEmptyObject, ConfExpiry10s, ConfAllSet, ConfExpiryZero } \cup MalformedBlobs

\* get_configuration(): None or Some(blob).
ConfigInputs == {None} \cup { Some(c) : c \in ConfigBlobs }

\* Every well-formed blob that sets a subset of the four fields.
SubsetBlobs == { WriteConfig(Assignment(fs)) : fs \in SUBSET Range(FieldNames) }
SubsetInputs == {None} \cup { Some(c) : c \in SubsetBlobs \cup MalformedBlobs }

\* Bodies the header providing service may answer with.
BodyAlice == << LB, S("X-User"), CO, S("alice"), RB >>
BodyMixed ==
    << LB, S("X-User"), CO, S("bob"), CM, S("X-Count"), CO, N("5"), CM,
           S("X-Flag"), CO, TT, CM, S("X-Nil"), CO, NL, CM,
           S("X-Obj"), CO, LB, S("a"), CO, S("b"), RB, RB >>
BodyOops      == << S("oops") >>
BodyNumber    == << N("7") >>
BodyArray     == << LS, S("X-User"), CM, S("alice"), RS >>
BodyTruncated == << LB, S("X-User"), CO >>
BodyBinary    == << BAD >>
BodyEmpty     == << >>

Bodies ==
    { BodyAlice, BodyMixed, BodyOops, BodyNumber, BodyArray,
      BodyTruncated, BodyBinary, BodyEmpty }

\* Header maps of arriving requests.
EmptyHeaders == [n \in {} |-> ""]
ReqPlain == [n \in {"Accept"} |-> "*/*"]
ReqFull ==
    [n \in {"Accept", "X-User", "X-Count"} |->
        CASE n = "Accept" -> "*/*" [] n = "X-User" -> "eve" [] OTHER -> "1"]
RequestInputs == { ReqPlain, ReqFull }

\* ------------------------------------------------------------------- state
VARIABLES
    configs,      \* CONFIGS[context_id]: the stored FilterConfig
    tick_period,  \* the root context's timer period in seconds, 0 = not armed
    cache,        \* shared data under CACHE_KEY: None or Some(bytes)
    calls,        \* tokens of dispatched HTTP calls awaiting a response, oldest first
    request,      \* the HTTP context of the stream the last callback served:
                  \* arriving headers and outcome; idle after any other callback
    trapped,      \* a handler panicked: the module instance is dead
    last,         \* the last callback the host invoked and how it ended
    configured,   \* history: some on_configure has returned true
    newest        \* history: what became of the most recently dispatched call

vars == << configs, tick_period, cache, calls, request, trapped, last,
           configured, newest >>

Called(op, ret, note) == [op |-> op, ret |-> ret, note |-> note]

IdleRequest == [st |-> "idle", in |-> EmptyHeaders, headers |-> EmptyHeaders, resp |-> None]

\* _start: the root context is created with a default FilterConfig; no
\* timer is armed, no shared data exists.
Init ==
    /\ configs = DefaultFilterConfig
    /\ tick_period = 0
    /\ cache = None
    /\ calls = << >>
    /\ request = IdleRequest
    /\ trapped = FALSE
    /\ last = Called("_start", "-", "-")
    /\ configured = FALSE
    /\ newest = "none"

\* ------------------------------------------------------------ RootHandler
\* from_slice::<FilterConfig> tabulated over the blobs of the model.
ConfigTable == [c \in ConfigBlobs \cup SubsetBlobs |-> from_slice_FilterConfig(c)]

\* A configure that stores whatever the parse produced, failed or not.
ConfiguredConfigs_Eager(parsed, p, old) == p.cfg

\* A configure that leaves the slot as it is.
ConfiguredCache_Keep(parsed, shared_ok, old) == old

\* on_configure, line by line.  parsed: the blob is present and parses to p.
\* CONFIGS.insert happens in the Ok arm only.
ConfiguredConfigs(parsed, p, old) == IF parsed THEN p.cfg ELSE old

\* set_tick_period(INITIALISATION_TICK), reached only past both early returns.
ConfiguredTick(parsed, old) == IF parsed THEN INITIALISATION_TICK ELSE old

\* set_shared_data(CACHE_KEY, None, None): the slot is emptied when the host
\* accepts the write.
ConfiguredCache(parsed, shared_ok, old) == IF parsed /\ shared_ok THEN None ELSE old

\* RootContext::on_configure.  conf is what get_configuration() returns,
\* shared_ok whether the host accepts set_shared_data(CACHE_KEY, None, None).
OnConfigure(conf, shared_ok) ==
    /\ ~trapped
    /\ LET p      == IF IsSome(conf) THEN ConfigTable[Unwrap(conf)] ELSE CErr
           parsed == IsSome(conf) /\ p.ok
       IN  /\ configs' = ConfiguredConfigs(parsed, p, configs)
           /\ tick_period' = ConfiguredTick(parsed, tick_period)
           /\ cache' = ConfiguredCache(parsed, shared_ok, cache)
           /\ last' = Called("on_configure",
                             IF parsed /\ shared_ok THEN "true" ELSE "false",
                             CASE ~IsSome(conf) -> "missing"
                               [] ~parsed -> "malformed"
                               [] ~shared_ok -> "store_err"
                               [] OTHER -> "ok")
           /\ configured' = (configured \/ (parsed /\ shared_ok))
    /\ request' = IdleRequest
    /\ UNCHANGED << calls, trapped, newest >>

\* The token dispatch_http_call returns: the least one no outstanding call
\* carries.
NewToken(cs) ==
    CHOOSE t \in 1..MaxInFlight :
        t \notin Range(cs) /\ \A u \in 1..(t - 1) : u \in Range(cs)

\* A tick that does not fall back to the initialisation tick.
TickPeriodAfter_NoReset(dispatch_ok, expiry) == expiry

\* A tick that stays at the initialisation tick and leaves the switch to the
\* expiry to a successful fetch.
TickPeriodAfter_Pessimistic(dispatch_ok, expiry) == INITIALISATION_TICK

\* The timer period on_tick leaves: set to the configured expiry first, set
\* back to the initialisation tick in map_err when the dispatch fails.
TickPeriodAfter(dispatch_ok, expiry) ==
    IF dispatch_ok THEN expiry ELSE INITIALISATION_TICK

\* RootContext::on_tick, fired by the host while the timer is armed.
\* dispatch_ok is whether dispatch_http_call returns Ok(token).
OnTick(dispatch_ok) ==
    /\ ~trapped
    /\ tick_period > 0
    /\ dispatch_ok => Len(calls) < MaxInFlight
    /\ tick_period' = TickPeriodAfter(dispatch_ok, configs.header_cache_expiry)
    /\ calls' = IF dispatch_ok THEN Append(calls, NewToken(calls)) ELSE calls
    /\ last' = Called("on_tick", "-", IF dispatch_ok THEN "dispatch_ok" ELSE "dispatch_err")
    /\ newest' = IF dispatch_ok THEN "inflight" ELSE newest
    /\ request' = IdleRequest
    /\ UNCHANGED << configs, cache, trapped, configured >>

\* A response handler that clears the slot when the upstream body is empty.
ResponseCache_ClearsOnEmpty(body, store_ok, old) ==
    IF body = << >> THEN None ELSE IF store_ok THEN Some(body) ELSE old

\* A response handler that writes the slot only while it is empty.
ResponseCache_FirstWins(body, store_ok, old) ==
    IF body # << >> /\ store_ok /\ ~IsSome(old) THEN Some(body) ELSE old

\* A response handler without the empty-body return: it stores whatever
\* body arrived.
ResponseCache_StoresEmpty(body, store_ok, old) ==
    IF store_ok THEN Some(body) ELSE old

\* on_http_call_response: the slot after the callback.  An empty body
\* (get_http_call_response_body returns None) returns before the store.
ResponseCache(body, store_ok, old) ==
    IF body # << >> /\ store_ok THEN Some(body) ELSE old

\* A response handler that treats an empty body as a failure to retry fast.
ResponseTick_EmptyRetries(body, store_ok, old) ==
    IF body = << >> \/ ~store_ok THEN INITIALISATION_TICK ELSE old

\* A response handler that leaves the timer alone when the store fails.
ResponseTick_NoRetry(body, store_ok, old) == old

\* A response handler whose store arms are swapped: it falls back to the
\* initialisation tick when the store succeeds.
ResponseTick_ArmsSwapped(body, store_ok, old) ==
    IF body # << >> /\ store_ok THEN INITIALISATION_TICK ELSE old

\* on_http_call_response: the timer period after the callback; only the Err
\* arm of the store touches it.
ResponseTick(body, store_ok, old) ==
    IF body # << >> /\ ~store_ok THEN INITIALISATION_TICK ELSE old

\* on_http_call_response: the debug! line of the Ok arm unwraps
\* String::from_utf8(body).
ResponsePanics(body, store_ok) ==
    body # << >> /\ store_ok /\ ~from_utf8_ok(body)

\* History of the most recently dispatched call, kept for the claims about
\* response order.  calls is in dispatch order, so the call answered is the
\* most recent one when it is the last of calls and that call is still
\* outstanding.  "stored": its body is in the slot; "failed": it came back
\* empty or its store failed; "overwritten": its body was in the slot and the
\* response to an earlier call has been stored over it.
NewestAfterResponse(i, n, stored, old) ==
    CASE old = "inflight" /\ i = n -> IF stored THEN "stored" ELSE "failed"
      [] old = "stored" /\ stored -> "overwritten"
      [] OTHER -> old

\* Context::on_http_call_response for the i-th outstanding call.  body is
\* the upstream body, store_ok whether the host accepts
\* set_shared_data(CACHE_KEY, Some(body), None).
OnHttpCallResponse(i, body, store_ok) ==
    /\ ~trapped
    /\ i \in 1..Len(calls)
    /\ calls' = RemoveAt(calls, i)
    /\ cache' = ResponseCache(body, store_ok, cache)
    /\ tick_period' = ResponseTick(body, store_ok, tick_period)
    /\ trapped' = ResponsePanics(body, store_ok)
    /\ last' = Called("on_http_call_response",
                      IF ResponsePanics(body, store_ok) THEN "panic" ELSE "-",
                      CASE body = << >> -> "empty"
                        [] store_ok -> "stored"
                        [] OTHER -> "store_err")
    /\ newest' = NewestAfterResponse(i, Len(calls), body # << >> /\ store_ok, newest)
    /\ request' = IdleRequest
    /\ UNCHANGED << configs, configured >>

\* ------------------------------------------------------------ HttpHandler
\* An empty-slot arm that forwards the request instead of rejecting it.
RejectUninitialised_Forward(hdrs) ==
    [st |-> "continued", in |-> hdrs, headers |-> hdrs, resp |-> None]

\* The (None, _) arm: send_http_response(500, ...) and Action::Pause.
RejectUninitialised(hdrs) ==
    [st |-> "paused", in |-> hdrs, headers |-> hdrs,
     resp |-> Some(NotInitialisedResponse)]

\* What on_http_request_headers makes of a request arriving with headers
\* hdrs when the shared data slot holds slot.
HandleRequest(slot, hdrs) ==
    IF ~IsSome(slot)
    THEN RejectUninitialised(hdrs)
    ELSE IF ~from_utf8_ok(Unwrap(slot))
    THEN [st |-> "panicked", in |-> hdrs, headers |-> hdrs, resp |-> None]
    ELSE LET ph == parse_headers(Unwrap(slot)) IN
         CASE ph.kind = "panic" ->
                [st |-> "panicked", in |-> hdrs, headers |-> hdrs, resp |-> None]
           [] ph.kind = "ok" ->
                [st |-> "continued", in |-> hdrs,
                 headers |-> SetHeaders(hdrs, ph.map, 1), resp |-> None]
           [] OTHER ->
                [st |-> "continued", in |-> hdrs, headers |-> hdrs, resp |-> None]

RequestTable == [slot \in {None} \cup {Some(b) : b \in Bodies \ {BodyEmpty}}, hdrs \in RequestInputs |-> HandleRequest(slot, hdrs)]

\* The Action the handler returns; a panic returns nothing.
ActionOf(st) ==
    CASE st = "paused" -> "Pause" [] st = "continued" -> "Continue" [] OTHER -> "panic"

\* HttpContext::on_http_request_headers for a request arriving with hdrs.
OnHttpRequestHeaders(hdrs) ==
    /\ ~trapped
    /\ request' = RequestTable[cache, hdrs]
    /\ trapped' = (request'.st = "panicked")
    /\ last' = Called("on_http_request_headers", ActionOf(request'.st), "-")
    /\ UNCHANGED << configs, tick_period, cache, calls, configured, newest >>

\* ----------------------------------------------------------- specification
\* The host's answers are drawn as failure flags.
Next ==
    \/ \E conf \in ConfigInputs, shared_err \in BOOLEAN : OnConfigure(conf, ~shared_err)
    \/ \E dispatch_err \in BOOLEAN : OnTick(~dispatch_err)
    \/ \E i \in 1..MaxInFlight, body \in Bodies, store_err \in BOOLEAN :
           OnHttpCallResponse(i, body, ~store_err)
    \/ \E hdrs \in RequestInputs : OnHttpRequestHeaders(hdrs)

Spec == Init /\ [][Next]_vars

\* The configuration model alone: on_configure over every subset blob, and
\* the tick that takes the stored expiry into use.
ConfigNext ==
    \/ \E conf \in SubsetInputs, shared_err \in BOOLEAN : OnConfigure(conf, ~shared_err)
    \/ \E dispatch_err \in BOOLEAN : OnTick(~dispatch_err)

ConfigSpec == Init /\ [][ConfigNext]_vars

\* The refresh cycle of an instance the host configures once: on_configure
\* until it has returned true, then ticks, dispatch failures, responses and
\* requests in any order.
RefreshNext ==
    \/ \E conf \in ConfigInputs, shared_err \in BOOLEAN :
           ~configured /\ OnConfigure(conf, ~shared_err)
    \/ \E dispatch_err \in BOOLEAN : OnTick(~dispatch_err)
    \/ \E i \in 1..MaxInFlight, body \in Bodies, store_err \in BOOLEAN :
           OnHttpCallResponse(i, body, ~store_err)
    \/ \E hdrs \in RequestInputs : OnHttpRequestHeaders(hdrs)

RefreshSpec == Init /\ [][RefreshNext]_vars

\* The callbacks the host owes the filter: the timer keeps firing while it
\* is armed, and every dispatched call is answered (with a body, or with
\* none when the 5s timeout of dispatch_http_call runs out).
Tick == \E dispatch_err \in BOOLEAN : OnTick(~dispatch_err)
Deliver ==
    \E i \in 1..MaxInFlight, body \in Bodies, store_err \in BOOLEAN :
        OnHttpCallResponse(i, body, ~store_err)

FairSpec == Spec /\ WF_vars(Tick) /\ WF_vars(Deliver)

\* ------------------------------------------------------------------ claims
\* Shapes of cached bytes, read off the JSON they hold.
IsJson(bytes) == from_slice(bytes).ok
JsonOf(bytes) == from_slice(bytes).val
IsObject(bytes) == IsJson(bytes) /\ JsonOf(bytes).t = "obj"
Members(bytes) == JsonOf(bytes).v
\* the member at i is the one that counts for its key
Effective(ms, i) == \A j \in (i + 1)..Len(ms) : ms[j].k # ms[i].k
IsFlatStringObject(bytes) ==
    IsObject(bytes) /\ \A i \in 1..Len(Members(bytes)) : Members(bytes)[i].val.t = "str"
Keys(bytes) == { Members(bytes)[i].k : i \in 1..Len(Members(bytes)) }

RequestStep == last'.op = "on_http_request_headers"

\* C1: whenever on_http_request_headers runs while the shared cache slot is
\* empty it answers 500 "Filter not initialised" with the header
\* Powered-By: header-augmenting-filter, returns Action::Pause, does not
\* touch the request, and leaves the cache and the timer period unchanged.
C1_FailClosed ==
    [][ (RequestStep /\ ~IsSome(cache)) =>
          /\ last'.ret = "Pause"
          /\ request'.st = "paused"
          /\ IsSome(request'.resp)
          /\ Unwrap(request'.resp).status = 500
          /\ Unwrap(request'.resp).body = "Filter not initialised"
          /\ "Powered-By" \in DOMAIN Unwrap(request'.resp).headers
          /\ Unwrap(request'.resp).headers["Powered-By"] = "header-augmenting-filter"
          /\ request'.headers = request'.in
          /\ cache' = cache
          /\ tick_period' = tick_period
          /\ calls' = calls ]_vars

\* C1 witness: a request was rejected on an instance that is configured and
\* has a fetch outstanding.
C1_Witness ==
    /\ last.op = "on_http_request_headers"
    /\ request.st = "paused"
    /\ ~IsSome(cache)
    /\ tick_period > 0
    /\ Len(calls) > 0

\* C2: when the cache decodes to a flat JSON object of strings, the handler
\* sets every key's header to the cached value (overwriting a header of the
\* same name), leaves every other request header as it arrived, sends no
\* local response and returns Action::Continue.
C2_FlatObjectInjected ==
    [][ (RequestStep /\ IsSome(cache) /\ IsFlatStringObject(Unwrap(cache))) =>
          LET ms == Members(Unwrap(cache))
              h  == request'.headers
          IN  /\ \A i \in 1..Len(ms) :
                    Effective(ms, i) => (ms[i].k \in DOMAIN h /\ h[ms[i].k] = ms[i].val.v)
              /\ DOMAIN h = DOMAIN request'.in \cup Keys(Unwrap(cache))
              /\ \A n \in DOMAIN request'.in \ Keys(Unwrap(cache)) : h[n] = request'.in[n]
              /\ request'.resp = None
              /\ last'.ret = "Continue" ]_vars

\* C2 witness: a request that arrived with its own X-User was forwarded
\* with the cached X-User, its other headers intact.
C2_Witness ==
    /\ last.op = "on_http_request_headers"
    /\ cache = Some(BodyAlice)
    /\ request.in = ReqFull
    /\ request.st = "continued"
    /\ request.headers["X-User"] = "alice"
    /\ request.headers["X-Count"] = "1"

\* C3: when the cache holds valid JSON that is not an object, the handler
\* completes normally: no header injected, the request forwarded unmodified
\* with Action::Continue, no 500 and no abort.
C3_NonObjectForwarded ==
    (/\ last.op = "on_http_request_headers"
     /\ IsSome(cache)
     /\ IsJson(Unwrap(cache))
     /\ ~IsObject(Unwrap(cache)))
    => (/\ last.ret = "Continue"
        /\ request.headers = request.in
        /\ request.resp = None
        /\ ~trapped)

\* C4: when the cache holds bytes that do not decode as the expected object,
\* the handler sets no header, sends no local response, returns
\* Action::Continue and leaves the cache unchanged; the only outcome that is
\* not Continue is the empty-cache case.
C4_FailOpenOnDecodeFailure ==
    [][ RequestStep =>
          /\ (IsSome(cache) /\ ~IsObject(Unwrap(cache))) =>
                (/\ last'.ret = "Continue"
                 /\ request'.headers = request'.in
                 /\ request'.resp = None
                 /\ cache' = cache)
          /\ last'.ret # "Continue" => ~IsSome(cache) ]_vars

\* The header value a JSON scalar stringifies to.
Stringified(val) == val.v

\* C5: for every key of the decoded cached object, string-valued or not, the
\* handler sets a request header of that name to the stringified value; no
\* key leaves its header absent or removed.
C5_EveryKeyStringified ==
    (/\ last.op = "on_http_request_headers"
     /\ IsSome(cache)
     /\ IsObject(Unwrap(cache)))
    => LET ms == Members(Unwrap(cache)) IN
       \A i \in 1..Len(ms) :
          Effective(ms, i) =>
             /\ ms[i].k \in DOMAIN request.headers
             /\ ms[i].val.t \in {"str", "num", "bool", "null"} =>
                   request.headers[ms[i].k] = Stringified(ms[i].val)

\* The configuration each well-formed blob of the model describes.
DescribedConfig(blob) ==
    CASE blob = ConfEmptyObject ->
           [ header_providing_service_cluster   |-> "sidecar",
             header_providing_service_path      |-> "/headers",
             header_providing_service_authority |-> "sidecar",
             header_cache_expiry                |-> 360 ]
      [] blob = ConfExpiry10s ->
           [ header_providing_service_cluster   |-> "sidecar",
             header_providing_service_path      |-> "/headers",
             header_providing_service_authority |-> "sidecar",
             header_cache_expiry                |-> 10 ]
      [] blob = ConfAllSet ->
           [ header_providing_service_cluster   |-> "c1",
             header_providing_service_path      |-> "/h",
             header_providing_service_authority |-> "a1",
             header_cache_expiry                |-> 10 ]
      [] blob = ConfExpiryZero ->
           [ header_providing_service_cluster   |-> "sidecar",
             header_providing_service_path      |-> "/headers",
             header_providing_service_authority |-> "sidecar",
             header_cache_expiry                |-> 0 ]

WellFormedBlobs == { ConfEmptyObject, ConfExpiry10s, ConfAllSet, ConfExpiryZero }

\* C6: whenever on_configure returns success, the shared cache slot is
\* empty, the timer is armed at the 3s initialisation tick and the stored
\* configuration is the one the blob describes; also for a second
\* on_configure on a running instance.
C6_ConfigureSuccessState ==
    [][ \A conf \in ConfigInputs, ok \in BOOLEAN :
          (last'.op = "on_configure" /\ last'.ret = "true" /\ OnConfigure(conf, ok)) =>
             /\ cache' = None
             /\ tick_period' = 3
             /\ IsSome(conf)
             /\ Unwrap(conf) \in WellFormedBlobs
             /\ configs' = DescribedConfig(Unwrap(conf)) ]_vars

\* C6 witness: on_configure succeeded on an instance that already had a
\* fetch outstanding, and stored the all-fields configuration.
C6_Witness ==
    /\ last.op = "on_configure"
    /\ last.ret = "true"
    /\ Len(calls) > 0
    /\ configs.header_providing_service_cluster = "c1"
    /\ cache = None
    /\ tick_period = 3

RejectedInputs == {None} \cup { Some(b) : b \in MalformedBlobs }

\* C7: when the blob is absent or malformed (wrong-typed field, unparsable
\* duration, truncated JSON), on_configure returns false and changes
\* nothing: stored configuration, timer period and shared cache stay as they
\* were before the call.
C7_RejectedConfigChangesNothing ==
    [][ /\ \A conf \in RejectedInputs, ok \in BOOLEAN :
              (last'.op = "on_configure" /\ OnConfigure(conf, ok)) =>
                 (last'.ret = "false" /\ last'.note \in {"missing", "malformed"})
        /\ (last'.op = "on_configure" /\ last'.note \in {"missing", "malformed"}) =>
              /\ last'.ret = "false"
              /\ configs' = configs
              /\ tick_period' = tick_period
              /\ cache' = cache
              /\ calls' = calls ]_vars

\* C7 witness: a malformed blob was rejected on an instance that runs with
\* a non-default configuration, a populated cache and the expiry period.
C7_Witness ==
    /\ last.op = "on_configure"
    /\ last.note = "malformed"
    /\ configs.header_providing_service_cluster = "c1"
    /\ IsSome(cache)
    /\ tick_period = 10

\* C8: for every well-formed blob that sets a subset of the four fields,
\* on_configure stores each set field as supplied and each unset field at
\* its default (cluster "sidecar", path "/headers", authority "sidecar",
\* expiry 360s); a missing field never makes on_configure fail.
C8_DefaultsOverlay ==
    [][ \A fs \in SUBSET Range(FieldNames), ok \in BOOLEAN :
          (last'.op = "on_configure" /\ OnConfigure(Some(WriteConfig(Assignment(fs))), ok)) =>
             /\ configs'.header_providing_service_cluster =
                   (IF "header_providing_service_cluster" \in fs THEN "c1" ELSE "sidecar")
             /\ configs'.header_providing_service_path =
                   (IF "header_providing_service_path" \in fs THEN "/h" ELSE "/headers")
             /\ configs'.header_providing_service_authority =
                   (IF "header_providing_service_authority" \in fs THEN "a1" ELSE "sidecar")
             /\ configs'.header_cache_expiry =
                   (IF "header_cache_expiry" \in fs THEN 10 ELSE 360)
             /\ last'.note # "malformed"
             /\ last'.ret = (IF ok THEN "true" ELSE "false") ]_vars

\* C8 witness: a blob setting only cluster and expiry was accepted, path and
\* authority at their defaults.
C8_Witness ==
    /\ last.op = "on_configure"
    /\ last.ret = "true"
    /\ configs.header_providing_service_cluster = "c1"
    /\ configs.header_providing_service_path = "/headers"
    /\ configs.header_providing_service_authority = "sidecar"
    /\ configs.header_cache_expiry = 10

\* C9: when the upstream call cannot be dispatched during on_tick, the
\* timer period on return is the 3s initialisation tick whatever the period
\* and cache were before, no call is added to those in flight, and the
\* shared cache is unchanged.
C9_DispatchFailureResetsTick ==
    [][ (last'.op = "on_tick" /\ last'.note = "dispatch_err") =>
          /\ tick_period' = 3
          /\ calls' = calls
          /\ cache' = cache ]_vars

\* C9 witness: a dispatch failed on an instance with a populated cache, an
\* expiry other than 3s and an earlier call still outstanding.
C9_Witness ==
    /\ last.op = "on_tick"
    /\ last.note = "dispatch_err"
    /\ IsSome(cache)
    /\ configs.header_cache_expiry = 10
    /\ Len(calls) > 0
    /\ tick_period = 3

NonEmptyBodies == Bodies \ {BodyEmpty}

\* C11: when on_http_call_response receives a non-empty body and the write
\* to the shared cache fails, the timer period is set to the 3s
\* initialisation tick and the cache keeps the value it had: the failed
\* payload never becomes visible to a request.
C11_StoreFailureRetriesFast ==
    [][ \A i \in 1..MaxInFlight, body \in NonEmptyBodies :
          (last'.op = "on_http_call_response" /\ OnHttpCallResponse(i, body, FALSE)) =>
             /\ tick_period' = 3
             /\ cache' = cache
             /\ last'.note = "store_err"
             /\ ~trapped' ]_vars

\* C11 witness: a store failed while the cache held an earlier payload and
\* the configured expiry was 10s; the payload is still there, the period 3s.
C11_Witness ==
    /\ last.op = "on_http_call_response"
    /\ last.note = "store_err"
    /\ cache = Some(BodyAlice)
    /\ configs.header_cache_expiry = 10
    /\ tick_period = 3

StoredStep == last'.op = "on_http_call_response" /\ last'.note = "stored"
JustStored == last.op = "on_http_call_response" /\ last.note = "stored"

\* The request headers carry every header of the payload.
Carries(h, bytes) ==
    LET ms == Members(bytes) IN
    \A i \in 1..Len(ms) :
       Effective(ms, i) => (ms[i].k \in DOMAIN h /\ h[ms[i].k] = ms[i].val.v)

C13_TimerArmedAtTickOrExpiry ==
    configured =>
       /\ tick_period > 0
       /\ tick_period \in {3, configs.header_cache_expiry}

\* C14 as claimed: once the shared cache has been populated by a successful
\* fetch it is never emptied again, whatever on_configure, on_tick,
\* on_http_call_response and on_http_request_headers calls follow, so no
\* request after the first successful fetch is rejected with 500.
C14_PopulatedForLife ==
    [][ IsSome(cache) => (IsSome(cache') /\ (RequestStep => last'.ret # "Pause")) ]_vars

\* C14 amended: a populated shared cache is emptied only by an on_configure
\* that returns true; on_tick, on_http_call_response,
\* on_http_request_headers and a failing on_configure leave it populated,
\* and a request is rejected with 500 only while the slot is empty.
C14_EmptiedOnlyByConfigure ==
    [][ /\ (IsSome(cache) /\ ~IsSome(cache')) =>
              (last'.op = "on_configure" /\ last'.ret = "true")
        /\ (IsSome(cache) /\ last'.op = "on_configure" /\ last'.ret = "false") =>
              cache' = cache
        /\ (RequestStep /\ last'.ret = "Pause") => ~IsSome(cache) ]_vars

\* C14 witness: a second on_configure succeeded after the most recent call's
\* body had been stored, and the slot is empty again.
C14_Witness ==
    /\ last.op = "on_configure"
    /\ last.ret = "true"
    /\ newest = "stored"
    /\ cache = None

DispatchFailed == last'.op = "on_tick" /\ last'.note = "dispatch_err"
Dispatched == last'.op = "on_tick" /\ last'.note = "dispatch_ok"
EmptyResponse == last'.op = "on_http_call_response" /\ last'.note = "empty"
StoreFailed == last'.op = "on_http_call_response" /\ last'.note = "store_err"

C16_AcceptedExpiryPositive ==
    /\ (last.op = "on_configure" /\ last.ret = "true") => configs.header_cache_expiry > 0
    /\ configs.header_cache_expiry > 0
    /\ last.op = "on_tick" => tick_period > 0

\* C17 as claimed: with several calls outstanding and their responses
\* arriving in any order, the payload of the most recently dispatched call
\* stays in the shared cache once it is there: the response to a call
\* dispatched earlier, arriving later, never overwrites it.
C17_NewestFetchWins ==
    [][ (StoredStep /\ newest = "stored" /\ IsSome(cache)) => cache' = cache ]_vars

\* C17 amended: the shared cache holds the payload of the response that
\* arrived last with a non-empty body and an accepted store, whichever of the
\* outstanding calls it answers; a response that is empty or whose store
\* fails leaves the payload in place.
C17_LastArrivalWins ==
    [][ \A i \in 1..MaxInFlight, body \in Bodies, ok \in BOOLEAN :
          (last'.op = "on_http_call_response" /\ OnHttpCallResponse(i, body, ok)) =>
             cache' = (IF body # BodyEmpty /\ ok THEN Some(body) ELSE cache) ]_vars

\* C17 witness: two calls were outstanding, the later one was answered first
\* and its body stored, then the earlier one's body was stored over it; no
\* call is outstanding and the slot holds the earlier call's payload.
C17_Witness ==
    /\ last.op = "on_http_call_response"
    /\ last.note = "stored"
    /\ newest = "overwritten"
    /\ calls = << >>
    /\ cache = Some(BodyAlice)

\* C18: when on_configure fails because the shared cache slot cannot be
\* initialised, the configuration having parsed, the filter is left inactive
\* as for the other failures: on_configure returns false, the timer is not
\* armed (its period stays as it was, 0 on a fresh instance) and the stored
\* configuration is not replaced.
C18_SlotInitFailureLeavesInactive ==
    [][ (last'.op = "on_configure" /\ last'.note = "store_err") =>
          /\ last'.ret = "false"
          /\ tick_period' = tick_period
          /\ configs' = configs ]_vars

\* C19: the shared cache slot is always either empty or the whole non-empty
\* body of an upstream response delivered to on_http_call_response.  It is
\* written only by on_configure, to empty, and by on_http_call_response, to
\* the full body it was handed; on_tick and on_http_request_headers never
\* write it, so a request sees no partial, empty-but-present or made-up
\* payload.
C19_SlotEmptyOrWholeBody ==
    [][ /\ cache' \in {None} \cup { Some(b) : b \in NonEmptyBodies }
        /\ cache' # cache =>
              \/ last'.op = "on_configure" /\ cache' = None
              \/ /\ last'.op = "on_http_call_response"
                 /\ \E i \in 1..MaxInFlight, body \in NonEmptyBodies :
                       OnHttpCallResponse(i, body, TRUE) /\ cache' = Some(body)
        /\ last'.op \in {"on_tick", "on_http_request_headers"} => cache' = cache ]_vars

\* C19 witness: a request was served from a slot holding the five-member
\* body while a later call was outstanding and the timer had ticked.
C19_Witness ==
    /\ last.op = "on_http_request_headers"
    /\ request.st = "continued"
    /\ cache = Some(BodyMixed)
    /\ Len(calls) > 0
    /\ tick_period = 360

\* The last callback was not a failed refresh step.
Healthy == last.note \notin {"dispatch_err", "empty", "store_err"}
\* The last callback was not a request that ended otherwise than forwarded.
Forwarded == last.op = "on_http_request_headers" => last.ret = "Continue"

\* C20: after a successful on_configure, with the timer and the delivery of
\* responses weakly fair, the refresh loop never reaches a state in which
\* no further tick can fire; and if from some point on every dispatch
\* succeeds, every call comes back with a non-empty body and every store
\* succeeds, the cache is eventually populated and from then on every
\* request is forwarded with Action::Continue.
C20_RecoveryLiveness ==
    /\ [](configured => ENABLED Tick)
    /\ [](configured => (<>[]Healthy => <>(IsSome(cache) /\ []Forwarded)))

====
